---- MODULE Spec2Model ----
(***************************************************************************)
(* Silence-region extraction of the clinical-documentation front end.      *)
(*                                                                         *)
(* Two implementations of the extraction exist in the sources:             *)
(*   - the run-length scan of removeSilence (emails/welcome.tsx), which    *)
(*     classifies raw channel samples by their level in decibels;          *)
(*   - extractRegions of the TopPanel web worker, together with the        *)
(*     worker's message handler that derives the silence percentage.       *)
(*                                                                         *)
(* Two further parts of the front end have their own specification:        *)
(*   - SpecPanel: the TopPanel of a conversation page, with its player,    *)
(*     the regions drawn on it and the web worker;                         *)
(*   - SpecJobs: the job table of the Conversations page and the calls     *)
(*     of listHealthScribeJobsWrapper that fill it.                        *)
(*                                                                         *)
(* Numbers.  A sample is an integer number of thousandths of full scale    *)
(* (1000 = 1.0).  Every time, length and ratio is an exact fraction        *)
(* [num, den] in lowest terms; 0/0 stands for the NaN that a JavaScript    *)
(* division 0/0 yields.                                                    *)
(***************************************************************************)
EXTENDS Integers, Sequences, FiniteSets, TLC

\* ------------------------------------------------------------------ bounds
MaxLen == 4
MaxRate == 2
MaxDuration == 2

\* ------------------------------------------------------- input domains
\* sample levels, in thousandths of full scale: digital silence (0), full
\* scale (1000), and a negative sample whose magnitude is -40 dB exactly (-10)
SampleValues == {-10, 0, 1000}
\* the two samples that are not finite numbers, as codes outside the range of
\* a level
NaNSample == 2001
InfSample == 2002
NonFinite == {NaNSample, InfSample}
\* peaks [1, 1, 0, 0, 0, 1, 1], one second per sample
BoundaryPeaks == <<1000, 1000, 0, 0, 0, 1000, 1000>>
\* short series with at least one sample that is not finite
MalformedSeries ==
    {s \in UNION {[1..n -> SampleValues \cup NonFinite] : n \in 1..2} :
        \E k \in DOMAIN s : s[k] \in NonFinite}
PeakSeries ==
    UNION {[1..n -> SampleValues] : n \in 0..MaxLen}
        \cup {BoundaryPeaks} \cup MalformedSeries
SampleRates == 1..MaxRate
SilenceThresholds == {-50, -40}
Durations == (-1..MaxDuration) \cup {Len(BoundaryPeaks)}

\* ---------------------------------------------------------- arithmetic
Abs(x) == IF x < 0 THEN -x ELSE x

RECURSIVE Gcd(_, _)
Gcd(a, b) == IF b = 0 THEN a ELSE Gcd(b, a % b)

\* the fraction n/d in lowest terms with a positive denominator; d = 0 is
\* JavaScript's division by zero: 0/0 is NaN, kept as [0, 0]
Q(n, d) ==
    IF d = 0 THEN [num |-> IF n > 0 THEN 1 ELSE IF n < 0 THEN -1 ELSE 0, den |-> 0]
    ELSE LET g == Gcd(Abs(n), Abs(d))
             s == IF d < 0 THEN -1 ELSE 1
         IN  [num |-> s * (n \div g), den |-> s * (d \div g)]

Rat(n) == Q(n, 1)
IsNaN(a) == a.num = 0 /\ a.den = 0
RAdd(a, b) == Q(a.num * b.den + b.num * a.den, a.den * b.den)
RSub(a, b) == Q(a.num * b.den - b.num * a.den, a.den * b.den)
RMul(a, b) == Q(a.num * b.num, a.den * b.den)
RDiv(a, b) == Q(a.num * b.den, a.den * b.num)
\* comparisons are false as soon as one side is NaN, as in JavaScript
RLt(a, b) == ~IsNaN(a) /\ ~IsNaN(b) /\ a.num * b.den < b.num * a.den
RLeq(a, b) == ~IsNaN(a) /\ ~IsNaN(b) /\ a.num * b.den <= b.num * a.den
RGeq(a, b) == RLeq(b, a)

MinSilenceLengths == {Rat(0), Q(1, 5), Rat(1), Rat(2)}

RECURSIVE Pow10(_)
Pow10(k) == IF k = 0 THEN 1 ELSE 10 * Pow10(k - 1)

\* ------------------------------------------------- removeSilence (scan)
\* db < silenceThreshold for db = 20 * Math.log10(amplitude), the amplitude in
\* thousandths of full scale and the limit a multiple of 10 dB in -60..0:
\*   20 log10(a / 1000) < T   <=>   a^2 < 10^(6 + T/10)
\* DbBelow with the test db <= silenceThreshold
DbAtOrBelow(amplitude, silenceThreshold) ==
    /\ amplitude \notin NonFinite
    /\ amplitude * amplitude <= Pow10(6 - ((0 - silenceThreshold) \div 10))

\* (amplitude 0 gives -Infinity, below every limit; NaN gives NaN and
\* Infinity gives Infinity, and neither is below any limit)
DbBelow(amplitude, silenceThreshold) ==
    /\ amplitude \notin NonFinite
    /\ amplitude * amplitude < Pow10(6 - ((0 - silenceThreshold) \div 10))

\* the loop variables before the first iteration
ScanInit == [isSilence |-> TRUE, silenceStart |-> 0, nonSilentSegments |-> << >>]

\* ScanStep with the start of a run never moved off index 0 (the assignment
\* silenceStart = i left out)
ScanStepKeepStart(st, i, x, sampleRate, silenceThreshold, minSilenceSamples) ==
    IF DbBelow(Abs(x), silenceThreshold)
    THEN IF ~st.isSilence
         THEN [st EXCEPT !.isSilence = TRUE]
         ELSE st
    ELSE IF st.isSilence
         THEN [st EXCEPT
                 !.isSilence = FALSE,
                 !.nonSilentSegments =
                     IF RGeq(Rat(i - st.silenceStart), minSilenceSamples)
                     THEN Append(@, [start |-> Q(st.silenceStart, sampleRate),
                                     end |-> Q(i, sampleRate)])
                     ELSE @]
         ELSE st

\* one iteration of the loop, at index i (counted from 0) on sample x
ScanStep(st, i, x, sampleRate, silenceThreshold, minSilenceSamples) ==
    IF DbBelow(Abs(x), silenceThreshold)
    THEN IF ~st.isSilence
         THEN [st EXCEPT !.isSilence = TRUE, !.silenceStart = i]
         ELSE st
    ELSE IF st.isSilence
         THEN [st EXCEPT
                 !.isSilence = FALSE,
                 !.nonSilentSegments =
                     IF RGeq(Rat(i - st.silenceStart), minSilenceSamples)
                     THEN Append(@, [start |-> Q(st.silenceStart, sampleRate),
                                     end |-> Q(i, sampleRate)])
                     ELSE @]
         ELSE st

\* the loop variables after the first n iterations
RECURSIVE ScanLoop(_, _, _, _, _)
ScanLoop(channelData, n, sampleRate, silenceThreshold, minSilenceSamples) ==
    IF n = 0 THEN ScanInit
    ELSE ScanStep(ScanLoop(channelData, n - 1, sampleRate, silenceThreshold,
                           minSilenceSamples),
                  n - 1, channelData[n], sampleRate, silenceThreshold,
                  minSilenceSamples)

\* the list the scan of removeSilence leaves in nonSilentSegments
ScanSegments(channelData, sampleRate, silenceThreshold, minSilenceLength) ==
    ScanLoop(channelData, Len(channelData), sampleRate, silenceThreshold,
             RMul(minSilenceLength, Rat(sampleRate))).nonSilentSegments

\* segments.reduce((sum, {start, end}) => sum + (end - start), 0)
RECURSIVE SumLengths(_)
SumLengths(segments) ==
    IF segments = << >> THEN Rat(0)
    ELSE RAdd(SumLengths(SubSeq(segments, 1, Len(segments) - 1)),
              RSub(segments[Len(segments)].end, segments[Len(segments)].start))

\* no audio was put out
NoRender == [ok |-> FALSE, kept |-> << >>]

\* the rendering after the scan.  The OfflineAudioContext is created with
\* totalDuration * sampleRate frames, and a length of 0 is refused; start() is
\* called once per segment on the one AudioBufferSourceNode, and a second
\* start() throws InvalidStateError.  So audio is put out where the scan
\* collected exactly one segment of positive length, and it holds that segment
RenderSegments(segments, totalDuration, sampleRate) ==
    IF Len(segments) = 1 /\ RLt(Rat(0), RMul(totalDuration, Rat(sampleRate)))
    THEN [ok |-> TRUE, kept |-> segments]
    ELSE NoRender

\* ------------------------------------------------- TopPanel web worker
\* extractRegions of the worker script
extractRegions(pks, duration) ==
    << [start |-> Rat(0), end |-> RDiv(duration, Rat(10))] >>

\* self.onmessage of the worker script: the message it posts back
WorkerReply(pks, duration) ==
    LET silenceRegions == extractRegions(pks, duration)
        silenceTotal == SumLengths(silenceRegions)
    IN  [silenceRegions |-> silenceRegions,
         silencePercent |-> RDiv(silenceTotal, duration)]

\* ---------------------------------------------------------------- state
VARIABLES
    peaks,              \* the sample series of the loaded / recorded audio
    sampleRate,         \* the rate the recorded audio was decoded at
    rsCalled,           \* removeSilence has scanned the series
    rsArgs,             \* the arguments of that call
    nonSilentSegments,  \* the list its scan built
    totalDuration,      \* and the total length the call derives from it
    renderedAudio,      \* the audio the call put out: the segments it holds
    wOutcome,           \* "none" before the worker's handler ran, then how it ended
    wDuration,          \* the duration of that message
    wReply              \* the message the worker posted back

\* the TopPanel of one conversation page, its player and its web worker
VARIABLES
    revision,           \* which revision of TopPanel is mounted
    audioDuration,      \* wavesurfer.getDuration() of the loaded audio
    smallTalkList,      \* the small-talk segments of the transcript
    jobLoading,         \* the prop of that name
    getAudioPc,         \* where the call of getAudio stands
    wavesurferRegions,  \* the player and its regions plugin exist
    readyFired,         \* the player has emitted 'ready'
    audioLoading, showControls, audioReady,
    smallTalkCheck, silenceChecked,
    silencePeaks, silencePercent, smallTalkPercent,
    regions,            \* the regions drawn on the player
    regionInHandlers,   \* how many 'region-in' listeners are registered
    currentTime,        \* the position of the player
    lastRegionIn,       \* the last 'region-in' event: position and region end
    lastToggle,         \* the checkbox changed last
    workerTerminated,   \* worker.terminate() was called
    posted,             \* the number of worker.postMessage calls
    workerInbox         \* the requests that reached a live worker

\* the Conversations page: the table of jobs and the calls that fill it
VARIABLES
    listRevision,          \* which revision of listHealthScribeJobsWrapper runs
    healthScribeJobs,      \* the jobs listed
    moreHealthScribeJobs,  \* the filter and NextToken of the page to load next
    tableLoading,
    inFlight,              \* the calls waiting for the service's response
    issued,                \* the number of calls made
    lastDone               \* the call that set the list last, and its results

jobsVars == <<listRevision, healthScribeJobs, moreHealthScribeJobs, tableLoading,
              inFlight, issued, lastDone>>

extractVars == <<peaks, sampleRate, rsCalled, rsArgs, nonSilentSegments,
                 totalDuration, renderedAudio, wOutcome, wDuration, wReply>>

panelVars == <<revision, audioDuration, smallTalkList, jobLoading, getAudioPc,
               wavesurferRegions, readyFired, audioLoading, showControls,
               audioReady, smallTalkCheck, silenceChecked, silencePeaks,
               silencePercent, smallTalkPercent, regions, regionInHandlers,
               currentTime, lastRegionIn, lastToggle,
               workerTerminated, posted, workerInbox>>

\* a summarized segment and what processSummarizedSegment makes of it
VARIABLES
    summarizedSegment,  \* the text of a summary segment, a sequence of characters
    processed           \* the results of processSummarizedSegment, applied in turn

textVars == <<summarizedSegment, processed>>

\* no segment is being processed
NoText ==
    /\ summarizedSegment = << >>
    /\ processed = << >>

\* the AudioRecorder of the new-conversation page and its record plugin
VARIABLES
    recRevision,         \* which revision of AudioRecorder is mounted
    recordingStatus,
    paused,
    pluginState,         \* the state of the plugin's MediaRecorder
    recordEndListeners,  \* the 'record-end' listeners, each with the
                         \* lastRecordingDetails index its closure holds
    pendingEnds,         \* stopped recordings whose 'record-end' is still to come
    handled,             \* per 'record-end' event, the calls of setRecordedAudio
    recordedAudio,       \* the event whose recording is held (0: undefined)
    lastRecordingIndex,  \* lastRecordingDetails.index (0: null)
    clicks,              \* the number of button presses
    stopCalls            \* the number of calls of stopRecording

recorderVars == <<recRevision, recordingStatus, paused, pluginState,
                  recordEndListeners, pendingEnds, handled, recordedAudio,
                  lastRecordingIndex, clicks, stopCalls>>

\* AudioRecorder as its useState initial values leave it
RecorderMounted ==
    /\ recordingStatus = "inactive"
    /\ paused = FALSE
    /\ pluginState = "inactive"
    /\ recordEndListeners = << >>
    /\ pendingEnds = 0
    /\ handled = << >>
    /\ recordedAudio = 0
    /\ lastRecordingIndex = 0
    /\ clicks = 0
    /\ stopCalls = 0

\* the new-conversation page is not open
NoRecorder ==
    /\ recRevision = "paused"
    /\ RecorderMounted

\* ------------------------------------------------------------ RightPanel
VARIABLES rpRevision, summaryData, summaryChanges, isSaving, savePc, capturedChanges,
          updatedData, s3Object, putCompleted, toast, failedStep, summaryAtCall,
          saveCalls, edits

saveVars == <<rpRevision, summaryData, summaryChanges, isSaving, savePc, capturedChanges,
              updatedData, s3Object, putCompleted, toast, failedStep, summaryAtCall,
              saveCalls, edits>>

\* useState({}) of summaryChanges
NoChanges == << >>

RightPanelMounted ==
    /\ summaryChanges = NoChanges
    /\ isSaving = FALSE
    /\ savePc = "idle"
    /\ capturedChanges = NoChanges
    /\ updatedData = << >>
    /\ putCompleted = FALSE
    /\ toast = "none"
    /\ failedStep = "none"
    /\ summaryAtCall = summaryData
    /\ saveCalls = 0
    /\ edits = 0

NoRightPanel ==
    /\ rpRevision = "state"
    /\ summaryData = << >>
    /\ s3Object = << >>
    /\ RightPanelMounted

vars == <<peaks, sampleRate, rsCalled, rsArgs, nonSilentSegments, totalDuration,
          renderedAudio,
          wOutcome, wDuration, wReply,
          revision, audioDuration, smallTalkList, jobLoading, getAudioPc,
          wavesurferRegions, readyFired, audioLoading, showControls,
          audioReady, smallTalkCheck, silenceChecked, silencePeaks,
          silencePercent, smallTalkPercent, regions, regionInHandlers,
          currentTime, lastRegionIn, lastToggle,
          workerTerminated, posted, workerInbox,
          listRevision, healthScribeJobs, moreHealthScribeJobs, tableLoading,
          inFlight, issued, lastDone,
          summarizedSegment, processed,
          recRevision, recordingStatus, paused, pluginState, recordEndListeners, pendingEnds, handled, recordedAudio, lastRecordingIndex, clicks, stopCalls,
          rpRevision, summaryData, summaryChanges, isSaving, savePc, capturedChanges, updatedData, s3Object, putCompleted, toast, failedStep, summaryAtCall, saveCalls, edits>>

\* moreHealthScribeJobs = {}
NoMoreJobs == [searchFilter |-> "none", NextToken |-> 0]
NoneDone == [n |-> 0, NextToken |-> 0, results |-> << >>]

\* the Conversations page as its useState initial values leave it
JobListMounted ==
    /\ healthScribeJobs = << >>
    /\ moreHealthScribeJobs = NoMoreJobs
    /\ tableLoading = FALSE
    /\ inFlight = {}
    /\ issued = 0
    /\ lastDone = NoneDone

\* the Conversations page is not open
NoJobList ==
    /\ listRevision = "request"
    /\ JobListMounted

NoRegionIn == [at |-> Rat(0), end |-> Rat(0), seen |-> FALSE]

\* TopPanel as its useState initial values leave it, before the job arrived
PanelMounted ==
    /\ jobLoading = TRUE
    /\ getAudioPc = "idle"
    /\ wavesurferRegions = FALSE
    /\ readyFired = FALSE
    /\ audioLoading = TRUE
    /\ showControls = FALSE
    /\ audioReady = FALSE
    /\ silenceChecked = FALSE
    /\ silencePeaks = << >>
    /\ silencePercent = Rat(0)
    /\ smallTalkPercent = Rat(0)
    /\ regions = {}
    /\ regionInHandlers = 0
    /\ currentTime = Rat(0)
    /\ lastRegionIn = NoRegionIn
    /\ lastToggle = "none"
    /\ workerTerminated = FALSE
    /\ posted = 0
    /\ workerInbox = << >>

\* no conversation page is open
NoPanel ==
    /\ revision = "direct"
    /\ audioDuration = Rat(0)
    /\ smallTalkList = << >>
    /\ smallTalkCheck = FALSE
    /\ PanelMounted

\* the default values of removeSilence's parameters
DefaultSilenceThreshold == -50
DefaultMinSilenceLength == Q(1, 5)

DefaultArgs == [silenceThreshold |-> DefaultSilenceThreshold,
                minSilenceLength |-> DefaultMinSilenceLength]

Init ==
    /\ peaks \in PeakSeries
    /\ sampleRate \in SampleRates
    /\ rsCalled = FALSE
    /\ rsArgs = DefaultArgs
    /\ nonSilentSegments = << >>
    /\ totalDuration = Rat(0)
    /\ renderedAudio = NoRender
    /\ wOutcome = "none"
    /\ wDuration = Rat(0)
    /\ wReply = [silenceRegions |-> << >>, silencePercent |-> Rat(0)]
    /\ NoPanel
    /\ NoJobList
    /\ NoText
    /\ NoRecorder
    /\ NoRightPanel

\* RemoveSilence with the scan storing each magnitude back into channelData
\* (channelData[i] = Math.abs(channelData[i]))
RemoveSilenceInPlace ==
    \E silenceThreshold \in SilenceThresholds, minSilenceLength \in MinSilenceLengths :
        /\ rsCalled' = TRUE
        /\ rsArgs' = [silenceThreshold |-> silenceThreshold,
                      minSilenceLength |-> minSilenceLength]
        /\ nonSilentSegments' =
               ScanSegments(peaks, sampleRate, silenceThreshold, minSilenceLength)
        /\ totalDuration' = SumLengths(nonSilentSegments')
        /\ renderedAudio' = RenderSegments(nonSilentSegments', totalDuration', sampleRate)
        /\ peaks' = [k \in DOMAIN peaks |-> Abs(peaks[k])]
        /\ UNCHANGED <<sampleRate, wOutcome, wDuration, wReply>>
        /\ UNCHANGED <<panelVars, jobsVars, textVars, recorderVars, saveVars>>

\* removeSilence(blob, silenceThreshold, minSilenceLength) on the recording:
\* the scan, the total length of what it collected, and the rendering of the
\* collected segments into the audio the call returns
RemoveSilence ==
    \E silenceThreshold \in SilenceThresholds, minSilenceLength \in MinSilenceLengths :
        /\ rsCalled' = TRUE
        /\ rsArgs' = [silenceThreshold |-> silenceThreshold,
                      minSilenceLength |-> minSilenceLength]
        /\ nonSilentSegments' =
               ScanSegments(peaks, sampleRate, silenceThreshold, minSilenceLength)
        /\ totalDuration' = SumLengths(nonSilentSegments')
        /\ renderedAudio' = RenderSegments(nonSilentSegments', totalDuration', sampleRate)
        /\ UNCHANGED <<peaks, sampleRate, wOutcome, wDuration, wReply>>
        /\ UNCHANGED <<panelVars, jobsVars, textVars, recorderVars, saveVars>>

\* the worker receives {peaks, duration}; its handler has no throw statement
\* and no validation, so it always ends by posting its reply
WorkerOnMessage ==
    \E duration \in Durations :
        /\ wOutcome' = "replied"
        /\ wDuration' = Rat(duration)
        /\ wReply' = WorkerReply(peaks, Rat(duration))
        /\ UNCHANGED <<peaks, sampleRate, rsCalled, rsArgs, nonSilentSegments,
                       totalDuration, renderedAudio>>
        /\ UNCHANGED <<panelVars, jobsVars, textVars, recorderVars, saveVars>>

Next == RemoveSilence \/ WorkerOnMessage

Spec == Init /\ [][Next]_vars

\* ------------------------------------------------------------- TopPanel
\* the length of the loaded audio in seconds, and how often the effect that
\* draws the regions may run
MaxTime == 4
MaxEffectRuns == 3

Revisions == {"direct", "worker"}
\* what exportPeaks()[0] and getDuration() give for the loaded audio
PanelPeaks == {<<1000, 0, 0, 1000>>, <<0, 0, 1000, 1000>>, <<1000, 1000>>}
PanelDurations == {0, MaxTime}
TimeGrid == {Rat(t) : t \in 0..MaxTime}

SmallTalkSegment(a, b) == [BeginAudioTime |-> Rat(a), EndAudioTime |-> Rat(b)]
\* the small-talk lists of a transcript of an audio of d seconds
SmallTalkLists(d) ==
    {<< >>}
        \cup {<<SmallTalkSegment(p[1], p[2])>> :
                 p \in {q \in (0..(d - 1)) \X (1..d) : q[1] < q[2] /\ q[2] - q[1] <= 2}}
        \cup (IF d >= 3 THEN {<<SmallTalkSegment(0, 1), SmallTalkSegment(d - 1, d)>>} ELSE {})

\* the imported extractRegions(peaks, duration): the scan of the silence
\* region extractor, with the level limit and the minimum length of
\* removeSilence
SpecSilent(x) == DbBelow(Abs(x), DefaultSilenceThreshold)

\* the runs of silent samples from index i on (counted from 1), as pairs of
\* first index and index after the last, counted from 0; open is the first
\* index of the run under way, or -1
RECURSIVE SilentRuns(_, _, _)
SilentRuns(pks, i, open) ==
    IF i > Len(pks)
    THEN IF open >= 0 THEN << <<open, Len(pks)>> >> ELSE << >>
    ELSE IF SpecSilent(pks[i])
         THEN SilentRuns(pks, i + 1, IF open >= 0 THEN open ELSE i - 1)
         ELSE (IF open >= 0 THEN << <<open, i - 1>> >> ELSE << >>)
                  \o SilentRuns(pks, i + 1, -1)

\* ok is FALSE where the extractor fails with InvalidArgument
extractSilenceRegions(pks, duration) ==
    IF Len(pks) = 0 THEN [ok |-> TRUE, regions |-> << >>]
    ELSE IF ~RLt(Rat(0), duration) \/ \E k \in DOMAIN pks : pks[k] \in NonFinite
    THEN [ok |-> FALSE, regions |-> << >>]
    ELSE LET secondsPerSample == RDiv(duration, Rat(Len(pks)))
             runs == SilentRuns(pks, 1, -1)
             all == [k \in DOMAIN runs |->
                        [start |-> RMul(Rat(runs[k][1]), secondsPerSample),
                         end |-> RMul(Rat(runs[k][2]), secondsPerSample)]]
             Keep(v) == RGeq(RSub(v.end, v.start), DefaultMinSilenceLength)
         IN  [ok |-> TRUE, regions |-> SelectSeq(all, Keep)]

\* smallTalkList.reduce((sum, s) => sum + (s.EndAudioTime - s.BeginAudioTime), 0)
RECURSIVE SmallTalkTime(_)
SmallTalkTime(list) ==
    IF list = << >> THEN Rat(0)
    ELSE RAdd(SmallTalkTime(SubSeq(list, 1, Len(list) - 1)),
              RSub(list[Len(list)].EndAudioTime, list[Len(list)].BeginAudioTime))

\* the regions the effect adds for the small-talk list
SmallTalkRegions(list) ==
    {[start |-> list[k].BeginAudioTime, end |-> list[k].EndAudioTime,
      id |-> "smalltalk"] : k \in DOMAIN list}

\* the regions the effect adds for the silences
SilenceRegions(pks, duration) ==
    LET r == extractSilenceRegions(pks, duration).regions
    IN  {[start |-> r[k].start, end |-> r[k].end, id |-> "silence"] : k \in DOMAIN r}

PanelInit ==
    /\ peaks \in PanelPeaks
    /\ sampleRate = 1
    /\ rsCalled = FALSE
    /\ rsArgs = DefaultArgs
    /\ nonSilentSegments = << >>
    /\ totalDuration = Rat(0)
    /\ renderedAudio = NoRender
    /\ wOutcome = "none"
    /\ wDuration = Rat(0)
    /\ wReply = [silenceRegions |-> << >>, silencePercent |-> Rat(0)]
    /\ revision \in Revisions
    /\ \E d \in PanelDurations :
           /\ audioDuration = Rat(d)
           /\ smallTalkList \in SmallTalkLists(d)
    /\ smallTalkCheck \in BOOLEAN
    /\ PanelMounted
    /\ NoJobList
    /\ NoText
    /\ NoRecorder
    /\ NoRightPanel

\* Conversation's getJob ends with setJobLoading(false); the effect of
\* TopPanel that depends on jobLoading runs again: first the cleanup its run
\* at mount returned (worker.terminate() in the worker revision), then
\* getAudio(), which waits for the presigned URL
JobLoaded ==
    /\ jobLoading
    /\ jobLoading' = FALSE
    /\ workerTerminated' = (revision = "worker")
    /\ getAudioPc' = "fetching"
    /\ UNCHANGED <<revision, audioDuration, smallTalkList, wavesurferRegions,
                   readyFired, audioLoading, showControls, audioReady,
                   smallTalkCheck, silenceChecked, silencePeaks, silencePercent,
                   smallTalkPercent, regions, regionInHandlers, currentTime,
                   lastRegionIn, lastToggle, posted, workerInbox>>
    /\ UNCHANGED <<extractVars, jobsVars, textVars, recorderVars, saveVars>>

\* getAudio past its await: WaveSurfer.create, the regions plugin, and the
\* listeners (a change of wavesurferRegions alone does not run the effect
\* that draws the regions: it is not among that effect's dependencies)
GetAudioCreated ==
    /\ getAudioPc = "fetching"
    /\ getAudioPc' = "done"
    /\ wavesurferRegions' = TRUE
    /\ UNCHANGED <<revision, audioDuration, smallTalkList, jobLoading,
                   readyFired, audioLoading, showControls, audioReady,
                   smallTalkCheck, silenceChecked, silencePeaks, silencePercent,
                   smallTalkPercent, regions, regionInHandlers, currentTime,
                   lastRegionIn, lastToggle, workerTerminated, posted,
                   workerInbox>>
    /\ UNCHANGED <<extractVars, jobsVars, textVars, recorderVars, saveVars>>

\* getAudio's catch: no audio URL, or no presigned URL
GetAudioFailed ==
    /\ getAudioPc = "fetching"
    /\ getAudioPc' = "failed"
    /\ audioLoading' = FALSE
    /\ UNCHANGED <<revision, audioDuration, smallTalkList, jobLoading,
                   wavesurferRegions, readyFired, showControls, audioReady,
                   smallTalkCheck, silenceChecked, silencePeaks, silencePercent,
                   smallTalkPercent, regions, regionInHandlers, currentTime,
                   lastRegionIn, lastToggle, workerTerminated, posted,
                   workerInbox>>
    /\ UNCHANGED <<extractVars, jobsVars, textVars, recorderVars, saveVars>>

\* RegionEffect without clearRegions()
RegionEffectNoClear ==
    IF ~wavesurferRegions'
    THEN UNCHANGED <<regions, regionInHandlers>>
    ELSE LET drawn == regions \cup
                 (IF smallTalkCheck' THEN SmallTalkRegions(smallTalkList') ELSE {})
         IN  IF silenceChecked' /\ ~extractSilenceRegions(silencePeaks', audioDuration').ok
             THEN regions' = drawn /\ UNCHANGED regionInHandlers
             ELSE /\ regions' = drawn \cup
                        (IF silenceChecked'
                         THEN SilenceRegions(silencePeaks', audioDuration') ELSE {})
                  /\ regionInHandlers' = regionInHandlers + 1

\* the effect that draws the regions, run on the state a render has just
\* committed: clearRegions(), the small-talk regions, the silence regions
\* (where the extraction throws the effect stops there), one more
\* 'region-in' listener
RegionEffect ==
    IF ~wavesurferRegions'
    THEN UNCHANGED <<regions, regionInHandlers>>
    ELSE LET drawn == IF smallTalkCheck' THEN SmallTalkRegions(smallTalkList') ELSE {}
         IN  IF silenceChecked' /\ ~extractSilenceRegions(silencePeaks', audioDuration').ok
             THEN regions' = drawn /\ UNCHANGED regionInHandlers
             ELSE /\ regions' = drawn \cup
                        (IF silenceChecked'
                         THEN SilenceRegions(silencePeaks', audioDuration') ELSE {})
                  /\ regionInHandlers' = regionInHandlers + 1

\* the 'ready' listener of the revision that extracts in the listener.  The
\* extraction is its first call: where it throws, the listener ends there.
\* Otherwise setSilencePeaks stores a new array, and the effect that draws
\* the regions runs after the render
ReadyDirect ==
    /\ revision = "direct"
    /\ getAudioPc = "done"
    /\ ~readyFired
    /\ readyFired' = TRUE
    /\ UNCHANGED <<revision, audioDuration, smallTalkList, jobLoading, getAudioPc,
                   wavesurferRegions, smallTalkCheck, silenceChecked, currentTime,
                   lastRegionIn, lastToggle, workerTerminated, posted, workerInbox>>
    /\ UNCHANGED <<extractVars, jobsVars, textVars, recorderVars, saveVars>>
    /\ LET r == extractSilenceRegions(peaks, audioDuration)
       IN  IF ~r.ok
           THEN UNCHANGED <<silencePeaks, silencePercent, smallTalkPercent,
                            showControls, audioLoading, audioReady, regions,
                            regionInHandlers>>
           ELSE /\ silencePeaks' = peaks
                /\ silencePercent' = RDiv(SumLengths(r.regions), audioDuration)
                /\ smallTalkPercent' = RDiv(SmallTalkTime(smallTalkList), audioDuration)
                /\ showControls' = TRUE
                /\ audioLoading' = FALSE
                /\ audioReady' = TRUE
                /\ RegionEffect

\* (worker.onmessage, which hands the reply's silencePercent to
\* setSilencePercent, runs on a reply only; the worker is terminated by
\* JobLoaded before any request reaches it, so no behaviour has a reply)
\* the 'ready' listener of the revision with the web worker: the request is
\* posted (a terminated worker takes no message) and the controls are
\* released; no dependency of the effect that draws the regions changes
ReadyWorker ==
    /\ revision = "worker"
    /\ getAudioPc = "done"
    /\ ~readyFired
    /\ readyFired' = TRUE
    /\ posted' = posted + 1
    /\ workerInbox' = IF workerTerminated THEN workerInbox
                      ELSE Append(workerInbox, [peaks |-> peaks, duration |-> audioDuration])
    /\ showControls' = TRUE
    /\ audioLoading' = FALSE
    /\ audioReady' = TRUE
    /\ UNCHANGED <<revision, audioDuration, smallTalkList, jobLoading, getAudioPc,
                   wavesurferRegions, smallTalkCheck, silenceChecked, silencePeaks,
                   silencePercent, smallTalkPercent, regions, regionInHandlers,
                   currentTime, lastRegionIn, lastToggle, workerTerminated>>
    /\ UNCHANGED <<extractVars, jobsVars, textVars, recorderVars, saveVars>>

\* the two checkboxes, rendered once neither the job nor the audio is loading
ToggleSmallTalk ==
    /\ ~jobLoading /\ ~audioLoading
    /\ regionInHandlers < MaxEffectRuns
    /\ smallTalkCheck' = ~smallTalkCheck
    /\ lastToggle' = "smallTalk"
    /\ UNCHANGED <<revision, audioDuration, smallTalkList, jobLoading, getAudioPc,
                   wavesurferRegions, readyFired, audioLoading, showControls,
                   audioReady, silenceChecked, silencePeaks, silencePercent,
                   smallTalkPercent, currentTime, lastRegionIn, workerTerminated,
                   posted, workerInbox>>
    /\ UNCHANGED <<extractVars, jobsVars, textVars, recorderVars, saveVars>>
    /\ RegionEffect

ToggleSilence ==
    /\ ~jobLoading /\ ~audioLoading
    /\ regionInHandlers < MaxEffectRuns
    /\ silenceChecked' = ~silenceChecked
    /\ lastToggle' = "silence"
    /\ UNCHANGED <<revision, audioDuration, smallTalkList, jobLoading, getAudioPc,
                   wavesurferRegions, readyFired, audioLoading, showControls,
                   audioReady, smallTalkCheck, silencePeaks, silencePercent,
                   smallTalkPercent, currentTime, lastRegionIn, workerTerminated,
                   posted, workerInbox>>
    /\ UNCHANGED <<extractVars, jobsVars, textVars, recorderVars, saveVars>>
    /\ RegionEffect

\* RegionInHandler with seekTo given the time instead of the fraction of the
\* duration
RegionInHandlerSeekTime(cur, end, duration) ==
    IF RLt(cur, end) THEN RMul(duration, end) ELSE cur

\* one 'region-in' listener on a region ending at end, the player at cur:
\* the position it leaves; seekTo(progress) moves to duration * progress
RegionInHandler(cur, end, duration) ==
    IF RLt(cur, end) THEN RMul(duration, RDiv(end, duration)) ELSE cur

\* every effect run has added a listener: all of them run, in turn
RECURSIVE RunRegionInHandlers(_, _, _, _)
RunRegionInHandlers(n, cur, end, duration) ==
    IF n = 0 THEN cur
    ELSE RegionInHandler(RunRegionInHandlers(n - 1, cur, end, duration), end, duration)

\* the position, moved to t by playback or by a click, is inside a drawn
\* region: the plugin emits 'region-in' for it
RegionIn ==
    \E r \in regions, t \in TimeGrid :
        /\ RLeq(r.start, t) /\ RLeq(t, r.end)
        /\ currentTime' = RunRegionInHandlers(regionInHandlers, t, r.end, audioDuration)
        /\ lastRegionIn' = [at |-> t, end |-> r.end, seen |-> TRUE]
        /\ UNCHANGED <<revision, audioDuration, smallTalkList, jobLoading,
                       getAudioPc, wavesurferRegions, readyFired, audioLoading,
                       showControls, audioReady, smallTalkCheck, silenceChecked,
                       silencePeaks, silencePercent, smallTalkPercent, regions,
                       regionInHandlers, lastToggle, workerTerminated, posted,
                       workerInbox>>
        /\ UNCHANGED <<extractVars, jobsVars, textVars, recorderVars, saveVars>>

PanelNext ==
    \/ JobLoaded
    \/ GetAudioCreated
    \/ GetAudioFailed
    \/ ReadyDirect
    \/ ReadyWorker
    \/ ToggleSmallTalk
    \/ ToggleSilence
    \/ RegionIn

SpecPanel == PanelInit /\ [][PanelNext]_vars

\* ------------------------------------------------- Conversations (job list)
\* the pages the service holds for the filter ALL, and the calls one visit of
\* the page may make
MaxPages == 2
MaxRequests == 3

StatusFilters == {"ALL", "COMPLETED"}
ListRevisions == {"response", "request"}
loginId == "u1"

Job(name, user) == [MedicalScribeJobName |-> name, UserName |-> user]

\* the pages of ListMedicalScribeJobs for a Status filter: every page of ALL
\* holds a job of the signed-in user and a job of somebody else
ServicePages(status) ==
    IF status = "ALL"
    THEN [p \in 1..MaxPages |-> <<Job(2 * p, loginId), Job(2 * p + 1, "u2")>>]
    ELSE << <<Job(0, loginId)>> >>

\* listHealthScribeJobs(processedSearchFilter): one page and, unless it is
\* the last, the token of the next (NextToken 0: none)
ListResponse(req) ==
    LET pages == ServicePages(req.searchFilter)
        p == IF req.NextToken = 0 THEN 1 ELSE req.NextToken
    IN  [MedicalScribeJobSummaries |-> pages[p],
         NextToken |-> IF p < Len(pages) THEN p + 1 ELSE 0]

\* the jobs whose UserName tag is the signed-in user's
IsUserJob(job) == job.UserName = loginId
FilteredResults(listResults) == SelectSeq(listResults, IsUserJob)

JobsInit ==
    /\ peaks = << >>
    /\ sampleRate = 1
    /\ rsCalled = FALSE
    /\ rsArgs = DefaultArgs
    /\ nonSilentSegments = << >>
    /\ totalDuration = Rat(0)
    /\ renderedAudio = NoRender
    /\ wOutcome = "none"
    /\ wDuration = Rat(0)
    /\ wReply = [silenceRegions |-> << >>, silencePercent |-> Rat(0)]
    /\ NoPanel
    /\ NoText
    /\ NoRecorder
    /\ NoRightPanel
    /\ listRevision \in ListRevisions
    /\ JobListMounted

\* TableHeader starts a search: a call without NextToken
SearchJobs ==
    \E status \in StatusFilters :
        /\ issued < MaxRequests
        /\ issued' = issued + 1
        /\ tableLoading' = TRUE
        /\ inFlight' = inFlight \cup
               {[id |-> issued + 1, searchFilter |-> status, NextToken |-> 0]}
        /\ UNCHANGED <<listRevision, healthScribeJobs, moreHealthScribeJobs, lastDone>>
        /\ UNCHANGED <<extractVars, panelVars, textVars, recorderVars, saveVars>>

\* Pagination goes past the last page loaded: the call for the next page
LoadMoreJobs ==
    /\ moreHealthScribeJobs.NextToken # 0
    /\ issued < MaxRequests
    /\ issued' = issued + 1
    /\ tableLoading' = TRUE
    /\ inFlight' = inFlight \cup
           {[id |-> issued + 1,
             searchFilter |-> moreHealthScribeJobs.searchFilter,
             NextToken |-> moreHealthScribeJobs.NextToken]}
    /\ UNCHANGED <<listRevision, healthScribeJobs, moreHealthScribeJobs, lastDone>>
    /\ UNCHANGED <<extractVars, panelVars, textVars, recorderVars, saveVars>>

\* a call gets its response and its jobs' details: the list and the pointer
\* to the next page are set.  One revision appends where the response carries
\* a NextToken, the other where the request carried one
ListJobsDone ==
    \E req \in inFlight :
        LET rsp == ListResponse(req)
            filteredResults == FilteredResults(rsp.MedicalScribeJobSummaries)
            append == IF listRevision = "response" THEN rsp.NextToken # 0
                      ELSE req.NextToken # 0
        IN  /\ inFlight' = inFlight \ {req}
            /\ healthScribeJobs' = IF append THEN healthScribeJobs \o filteredResults
                                   ELSE filteredResults
            /\ moreHealthScribeJobs' =
                   IF rsp.NextToken # 0
                   THEN [searchFilter |-> req.searchFilter, NextToken |-> rsp.NextToken]
                   ELSE NoMoreJobs
            /\ tableLoading' = FALSE
            /\ lastDone' = [n |-> lastDone.n + 1, NextToken |-> req.NextToken,
                            results |-> filteredResults]
            /\ UNCHANGED <<listRevision, issued>>
            /\ UNCHANGED <<extractVars, panelVars, textVars, recorderVars, saveVars>>

\* the response has no MedicalScribeJobSummaries
ListJobsNoSummaries ==
    \E req \in inFlight :
        /\ inFlight' = inFlight \ {req}
        /\ healthScribeJobs' = << >>
        /\ tableLoading' = FALSE
        /\ UNCHANGED <<listRevision, moreHealthScribeJobs, issued, lastDone>>
        /\ UNCHANGED <<extractVars, panelVars, textVars, recorderVars, saveVars>>

\* the call throws: the catch
ListJobsFailed ==
    \E req \in inFlight :
        /\ inFlight' = inFlight \ {req}
        /\ tableLoading' = FALSE
        /\ UNCHANGED <<listRevision, healthScribeJobs, moreHealthScribeJobs,
                       issued, lastDone>>
        /\ UNCHANGED <<extractVars, panelVars, textVars, recorderVars, saveVars>>

JobsNext ==
    \/ SearchJobs
    \/ LoadMoreJobs
    \/ ListJobsDone
    \/ ListJobsNoSummaries
    \/ ListJobsFailed

SpecJobs == JobsInit /\ [][JobsNext]_vars

\* ------------------------------------------- processSummarizedSegment
\* the length of a segment's text, and how often the function is applied
MaxStrLen == 4
MaxApplications == 2

\* a dash, a whitespace character, and a character that is neither
Chars == {"-", " ", "a"}
Whitespace == {" "}
Strings == UNION {[1..n -> Chars] : n \in 0..MaxStrLen}

\* no recording has been scanned and the worker has got no message
NoExtraction ==
    /\ peaks = << >>
    /\ sampleRate = 1
    /\ rsCalled = FALSE
    /\ rsArgs = DefaultArgs
    /\ nonSilentSegments = << >>
    /\ totalDuration = Rat(0)
    /\ renderedAudio = NoRender
    /\ wOutcome = "none"
    /\ wDuration = Rat(0)
    /\ wReply = [silenceRegions |-> << >>, silencePercent |-> Rat(0)]

\* String.prototype.trim
RECURSIVE trimStart(_)
trimStart(s) ==
    IF s # << >> /\ Head(s) \in Whitespace THEN trimStart(Tail(s)) ELSE s

RECURSIVE trimEnd(_)
trimEnd(s) ==
    IF s # << >> /\ s[Len(s)] \in Whitespace
    THEN trimEnd(SubSeq(s, 1, Len(s) - 1)) ELSE s

trim(s) == trimEnd(trimStart(s))

\* s.replace(/^-/, ''): one dash at the start of the string is removed
replaceLeadingDash(s) ==
    IF s # << >> /\ Head(s) = "-" THEN Tail(s) ELSE s

\* summarizedSegment.trim().replace(/^-/, '').trim()
processSummarizedSegment(s) == trim(replaceLeadingDash(trim(s)))

TextInit ==
    /\ NoExtraction
    /\ NoPanel
    /\ NoJobList
    /\ NoRecorder
    /\ NoRightPanel
    /\ summarizedSegment \in Strings
    /\ processed = << >>

\* the function is applied to the segment, then to its own result
ProcessSegment ==
    /\ Len(processed) < MaxApplications
    /\ processed' = Append(processed,
           processSummarizedSegment(IF processed = << >> THEN summarizedSegment
                                    ELSE processed[Len(processed)]))
    /\ UNCHANGED summarizedSegment
    /\ UNCHANGED <<extractVars, panelVars, jobsVars, recorderVars, saveVars>>

TextNext == ProcessSegment

SpecText == TextInit /\ [][TextNext]_vars

\* --------------------------------------------------------- AudioRecorder
\* the button presses of one visit of the page
MaxClicks == 6

\* "paused": the revision with the paused flag and one button;
\* "status": the revision with the status pauseRecording, a Stop button of its
\* own, and removeSilence in the 'record-end' listener
RecRevisions == {"paused", "status"}

RecorderInit ==
    /\ NoExtraction
    /\ NoPanel
    /\ NoJobList
    /\ NoText
    /\ NoRightPanel
    /\ recRevision \in RecRevisions
    /\ RecorderMounted

startRecording ==
    /\ recordingStatus' = "recording"
    /\ paused' = FALSE
    /\ pluginState' = "recording"
    /\ UNCHANGED <<recordEndListeners, pendingEnds, handled, recordedAudio,
                   lastRecordingIndex, stopCalls>>

pauseRecording ==
    /\ IF recRevision = "paused"
       THEN paused' = TRUE /\ UNCHANGED recordingStatus
       ELSE recordingStatus' = "pauseRecording" /\ UNCHANGED paused
    /\ pluginState' = "paused"
    /\ UNCHANGED <<recordEndListeners, pendingEnds, handled, recordedAudio,
                   lastRecordingIndex, stopCalls>>

resumeRecording ==
    /\ recordingStatus' = "recording"
    /\ pluginState' = "recording"
    /\ UNCHANGED <<paused, recordEndListeners, pendingEnds, handled,
                   recordedAudio, lastRecordingIndex, stopCalls>>

\* the plugin stops its MediaRecorder, whose 'record-end' comes later; then
\* one more listener is registered, and none is ever removed
stopRecording ==
    /\ recordingStatus' = "recorded"
    /\ pluginState' = "inactive"
    /\ pendingEnds' = IF pluginState # "inactive" THEN pendingEnds + 1 ELSE pendingEnds
    /\ recordEndListeners' = Append(recordEndListeners, lastRecordingIndex)
    /\ stopCalls' = stopCalls + 1
    /\ UNCHANGED <<paused, handled, recordedAudio, lastRecordingIndex>>

\* the setters of restartRecording, then startRecording()
restartRecording ==
    /\ recordedAudio' = 0
    /\ recordingStatus' = "recording"
    /\ paused' = FALSE
    /\ pluginState' = "recording"
    /\ UNCHANGED <<recordEndListeners, pendingEnds, handled, lastRecordingIndex,
                   stopCalls>>

\* the onClick of the main button (labelled Start, Pause, Resume, or
\* Stop / Restart)
MainButton ==
    /\ clicks < MaxClicks
    /\ clicks' = clicks + 1
    /\ UNCHANGED recRevision
    /\ UNCHANGED <<extractVars, panelVars, jobsVars, textVars, saveVars>>
    /\ IF recordingStatus = "inactive" THEN startRecording
       ELSE IF recRevision = "paused"
       THEN IF recordingStatus = "recording" /\ ~paused THEN pauseRecording
            ELSE IF recordingStatus = "pauseRecording" THEN startRecording
            ELSE IF recordingStatus = "recording" THEN stopRecording
            ELSE restartRecording
       ELSE IF recordingStatus = "recording" THEN pauseRecording
            ELSE IF recordingStatus = "pauseRecording" THEN resumeRecording
            ELSE restartRecording

\* the Stop button of the revision that has one, shown while recording or
\* paused
StopButton ==
    /\ recRevision = "status"
    /\ recordingStatus \in {"recording", "pauseRecording"}
    /\ clicks < MaxClicks
    /\ clicks' = clicks + 1
    /\ UNCHANGED recRevision
    /\ UNCHANGED <<extractVars, panelVars, jobsVars, textVars, saveVars>>
    /\ stopRecording

\* the plugin emits 'record-end' for a stopped recording: every registered
\* listener is called with the blob.  In the revision with removeSilence each
\* listener first awaits removeSilence(blob), and where that rejects no setter
\* is reached; otherwise each listener calls setRecordedAudio and
\* setLastRecordingDetails, the latter with the index its closure holds
RecordEnd ==
    /\ pendingEnds > 0
    /\ pendingEnds' = pendingEnds - 1
    /\ \E resolved \in (IF recRevision = "status" THEN BOOLEAN ELSE {TRUE}) :
           IF resolved
           THEN /\ handled' = Append(handled, Len(recordEndListeners))
                /\ recordedAudio' = Len(handled) + 1
                /\ lastRecordingIndex' =
                       recordEndListeners[Len(recordEndListeners)] + 1
           ELSE /\ handled' = Append(handled, 0)
                /\ UNCHANGED <<recordedAudio, lastRecordingIndex>>
    /\ UNCHANGED <<recRevision, recordingStatus, paused, pluginState,
                   recordEndListeners, clicks, stopCalls>>
    /\ UNCHANGED <<extractVars, panelVars, jobsVars, textVars, saveVars>>

RecorderNext ==
    \/ MainButton
    \/ StopButton
    \/ RecordEnd

SpecRecorder == RecorderInit /\ [][RecorderNext]_vars

\* the segments of the one section shown, the edits and the saves of one visit
MaxSegments == 2
MaxEdits == 2
MaxSaves == 2

\* "state": the panel loads summary.json into its own summaryData state and
\* merges the edits into it; "fetch": the panel shows the clinicalDocument it
\* is given (summaryData here) and merges the edits into the object it reads
\* back from S3
RpRevisions == {"state", "fetch"}

Texts == {"a", "b"}

\* the SummarizedSegment texts of a section's Summary array (index 0 of the
\* code is index 1 here)
Summaries == [1..MaxSegments -> Texts]

\* the panel once summary.json is loaded: the save button and the segments
\* are rendered only while summaryData is not null
RightPanelInit ==
    /\ NoExtraction
    /\ NoPanel
    /\ NoJobList
    /\ NoText
    /\ NoRecorder
    /\ rpRevision \in RpRevisions
    /\ s3Object \in Summaries
    /\ summaryData = s3Object
    /\ RightPanelMounted

\* the loops over Object.entries(summaryChanges): an edit replaces the text of
\* the segment at its index where the section has one
ApplyChanges(summary, changes) ==
    [i \in DOMAIN summary |-> IF i \in DOMAIN changes THEN changes[i] ELSE summary[i]]

\* onSummaryChange: setSummaryChanges(prev => ({...prev, [index]: newContent}))
EditSegment ==
    /\ edits < MaxEdits
    /\ edits' = edits + 1
    /\ \E i \in DOMAIN summaryData, newContent \in Texts :
           summaryChanges' = [k \in DOMAIN summaryChanges \cup {i} |->
                                  IF k = i THEN newContent ELSE summaryChanges[k]]
    /\ UNCHANGED <<rpRevision, summaryData, isSaving, savePc, capturedChanges,
                   updatedData, s3Object, putCompleted, toast, failedStep,
                   summaryAtCall, saveCalls>>
    /\ UNCHANGED <<extractVars, panelVars, jobsVars, textVars, recorderVars>>

\* handleSaveChanges up to its first await: setIsSaving(true), and the
\* closure holds the summaryChanges of the render the button was pressed in
SaveChanges ==
    /\ savePc = "idle"
    /\ saveCalls < MaxSaves
    /\ saveCalls' = saveCalls + 1
    /\ isSaving' = TRUE
    /\ capturedChanges' = summaryChanges
    /\ summaryAtCall' = summaryData
    /\ putCompleted' = FALSE
    /\ toast' = "none"
    /\ failedStep' = "none"
    /\ savePc' = "credentials"
    /\ UNCHANGED <<rpRevision, summaryData, summaryChanges, updatedData, s3Object, edits>>
    /\ UNCHANGED <<extractVars, panelVars, jobsVars, textVars, recorderVars>>

\* SaveFailed with the pending edits dropped with the failed save
SaveFailedDropsEdits(step) ==
    /\ toast' = "error"
    /\ failedStep' = step
    /\ isSaving' = FALSE
    /\ savePc' = "idle"
    /\ summaryChanges' = NoChanges
    /\ UNCHANGED <<putCompleted, s3Object>>

\* catch and finally: toast.error, setIsSaving(false)
SaveFailed(step) ==
    /\ toast' = "error"
    /\ failedStep' = step
    /\ isSaving' = FALSE
    /\ savePc' = "idle"
    /\ UNCHANGED <<summaryChanges, putCompleted, s3Object>>

\* getCredentials() settles, then useS3() gives the bucket or none.  In the
\* state revision the edits are then merged: Sections is copied but its
\* section objects are those of the summaryData state, so the assignment to
\* SummarizedSegment writes into summaryData; the put is sent.  In the fetch
\* revision the get is sent
CredentialsDone ==
    /\ savePc = "credentials"
    /\ \E credentials \in BOOLEAN, outputBucket \in BOOLEAN :
           IF ~credentials
           THEN SaveFailed("credentials") /\ UNCHANGED <<summaryData, updatedData>>
           ELSE IF ~outputBucket
           THEN SaveFailed("bucket") /\ UNCHANGED <<summaryData, updatedData>>
           ELSE IF rpRevision = "state"
           THEN /\ updatedData' = ApplyChanges(summaryData, capturedChanges)
                /\ summaryData' = ApplyChanges(summaryData, capturedChanges)
                /\ savePc' = "put"
                /\ UNCHANGED <<summaryChanges, isSaving, s3Object, putCompleted,
                               toast, failedStep>>
           ELSE /\ savePc' = "get"
                /\ UNCHANGED <<summaryData, updatedData, summaryChanges, isSaving,
                               s3Object, putCompleted, toast, failedStep>>
    /\ UNCHANGED <<rpRevision, capturedChanges, summaryAtCall, saveCalls, edits>>
    /\ UNCHANGED <<extractVars, panelVars, jobsVars, textVars, recorderVars>>

\* fetch revision: the get settles; a rejected get, an empty body or a body
\* that does not parse ends the save, otherwise the edits are merged into the
\* object read and the put is sent
GetDone ==
    /\ savePc = "get"
    /\ \E content \in BOOLEAN :
           IF ~content
           THEN SaveFailed("get") /\ UNCHANGED updatedData
           ELSE /\ updatedData' = ApplyChanges(s3Object, capturedChanges)
                /\ savePc' = "put"
                /\ UNCHANGED <<summaryChanges, isSaving, s3Object, putCompleted,
                               toast, failedStep>>
    /\ UNCHANGED <<rpRevision, summaryData, capturedChanges, summaryAtCall,
                   saveCalls, edits>>
    /\ UNCHANGED <<extractVars, panelVars, jobsVars, textVars, recorderVars>>

\* the put settles.  state revision: setSummaryData(updatedData) and
\* refreshSummaryData() is awaited; fetch revision: toast.success,
\* setSummaryChanges({}) and finally
PutDone ==
    /\ savePc = "put"
    /\ \E stored \in BOOLEAN :
           IF ~stored
           THEN SaveFailed("put") /\ UNCHANGED summaryData
           ELSE /\ s3Object' = updatedData
                /\ putCompleted' = TRUE
                /\ IF rpRevision = "state"
                   THEN /\ summaryData' = updatedData
                        /\ savePc' = "refresh"
                        /\ UNCHANGED <<summaryChanges, isSaving, toast, failedStep>>
                   ELSE /\ summaryChanges' = NoChanges
                        /\ toast' = "success"
                        /\ isSaving' = FALSE
                        /\ savePc' = "idle"
                        /\ UNCHANGED <<summaryData, failedStep>>
    /\ UNCHANGED <<rpRevision, capturedChanges, updatedData, summaryAtCall,
                   saveCalls, edits>>
    /\ UNCHANGED <<extractVars, panelVars, jobsVars, textVars, recorderVars>>

\* state revision: refreshSummaryData() resolves (fetchLatestSummaryData
\* catches its own errors and sets the page's state, not the panel's), then
\* setSummaryChanges({}), toast.success and finally
RefreshDone ==
    /\ savePc = "refresh"
    /\ summaryChanges' = NoChanges
    /\ toast' = "success"
    /\ isSaving' = FALSE
    /\ savePc' = "idle"
    /\ UNCHANGED <<rpRevision, summaryData, capturedChanges, updatedData, s3Object,
                   putCompleted, failedStep, summaryAtCall, saveCalls, edits>>
    /\ UNCHANGED <<extractVars, panelVars, jobsVars, textVars, recorderVars>>

RightPanelNext ==
    \/ EditSegment
    \/ SaveChanges
    \/ CredentialsDone
    \/ GetDone
    \/ PutDone
    \/ RefreshDone

SpecRightPanel == RightPanelInit /\ [][RightPanelNext]_vars

\* ------------------------------------------------ what the claims speak of
\* the extractions made so far, each with the inputs it was given.  The
\* worker's extractRegions takes neither a level limit nor a minimum length:
\* its result is held against the default values of the two parameters.
RsExtraction ==
    [impl |-> "removeSilence",
     intervals |-> nonSilentSegments,
     duration |-> Q(Len(peaks), sampleRate),
     threshold |-> rsArgs.silenceThreshold,
     minimum |-> rsArgs.minSilenceLength]

WorkerExtraction ==
    [impl |-> "worker",
     intervals |-> wReply.silenceRegions,
     duration |-> wDuration,
     threshold |-> DefaultSilenceThreshold,
     minimum |-> DefaultMinSilenceLength]

Extractions ==
    (IF rsCalled THEN {RsExtraction} ELSE {})
        \cup (IF wOutcome = "replied" THEN {WorkerExtraction} ELSE {})

PositiveDuration(e) == RLt(Rat(0), e.duration)
Silent(e, k) == DbBelow(Abs(peaks[k + 1]), e.threshold)
\* the time of sample index k: k * duration / peaks.length
TimeOf(e, k) == RDiv(RMul(Rat(k), e.duration), Rat(Len(peaks)))
Interval(e, a, b) == [start |-> TimeOf(e, a), end |-> TimeOf(e, b)]
Returned(e) == {e.intervals[k] : k \in DOMAIN e.intervals}

\* the maximal runs of silent samples, as index ranges a..b-1
MaximalRuns(e) ==
    {r \in (0..Len(peaks)) \X (0..Len(peaks)) :
        /\ r[1] < r[2]
        /\ \A k \in r[1]..(r[2] - 1) : Silent(e, k)
        /\ r[1] = 0 \/ ~Silent(e, r[1] - 1)
        /\ r[2] = Len(peaks) \/ ~Silent(e, r[2])}

LongEnough(e, r) ==
    RGeq(RSub(TimeOf(e, r[2]), TimeOf(e, r[1])), e.minimum)

\* --------------------------------------------------------------- claims
\* C1: for every peak series and positive duration the returned intervals are
\* sorted ascending by start and do not overlap: each interval ends no later
\* than the next one starts.
C1_SortedNonOverlapping ==
    \A e \in Extractions :
        PositiveDuration(e) =>
            \A k \in 1..(Len(e.intervals) - 1) :
                /\ RLeq(e.intervals[k].end, e.intervals[k + 1].start)
                /\ RLeq(e.intervals[k].start, e.intervals[k + 1].start)

\* C1 witness: removeSilence has returned two non-empty intervals, and the
\* worker has answered for a positive duration
C1_Witness ==
    /\ rsCalled
    /\ Len(peaks) > 0
    /\ Len(nonSilentSegments) >= 2
    /\ \A k \in DOMAIN nonSilentSegments :
           RLt(nonSilentSegments[k].start, nonSilentSegments[k].end)
    /\ wOutcome = "replied"
    /\ PositiveDuration(WorkerExtraction)

\* C2: every returned interval satisfies 0 <= start < end <= duration, for
\* every peak series, positive duration and minimum silence length.
C2_WithinDuration ==
    \A e \in Extractions :
        PositiveDuration(e) =>
            \A k \in DOMAIN e.intervals :
                /\ RLeq(Rat(0), e.intervals[k].start)
                /\ RLt(e.intervals[k].start, e.intervals[k].end)
                /\ RLeq(e.intervals[k].end, e.duration)

\* C3: every returned interval is at least the minimum silence length long.
C3_MinimumLength ==
    \A e \in Extractions :
        PositiveDuration(e) =>
            \A k \in DOMAIN e.intervals :
                RGeq(RSub(e.intervals[k].end, e.intervals[k].start), e.minimum)

\* C4: the returned intervals are exactly the maximal runs of silent samples
\* that reach the minimum length.
C4_ExactlyMaximalRuns ==
    \A e \in Extractions :
        PositiveDuration(e) =>
            Returned(e) =
                {Interval(e, r[1], r[2]) : r \in {q \in MaximalRuns(e) : LongEnough(e, q)}}

\* C5: when every sample of a non-empty series is silent, the result is the
\* single interval from 0 to the duration.
C5_AllSilent ==
    \A e \in Extractions :
        (/\ PositiveDuration(e)
         /\ Len(peaks) > 0
         /\ \A k \in 0..(Len(peaks) - 1) : Silent(e, k))
            => e.intervals = << [start |-> Rat(0), end |-> e.duration] >>

\* C6: when every sample is at or above the threshold, the result is empty,
\* for any positive duration.
C6_AllLoud ==
    \A e \in Extractions :
        (/\ PositiveDuration(e)
         /\ \A k \in 0..(Len(peaks) - 1) : ~Silent(e, k))
            => e.intervals = << >>

\* C7: with an empty peak series and a positive duration the extraction
\* returns the empty list and raises no error.
C7_EmptyInput ==
    (/\ wOutcome # "none"
     /\ Len(peaks) = 0
     /\ RLt(Rat(0), wDuration))
        => /\ wOutcome = "replied"
           /\ wReply.silenceRegions = << >>

\* C8: with a duration that is zero or negative the extraction fails with
\* InvalidArgument and returns no intervals.
C8_InvalidDuration ==
    (/\ wOutcome # "none"
     /\ RLeq(wDuration, Rat(0)))
        => /\ wOutcome = "InvalidArgument"
           /\ wReply.silenceRegions = << >>

\* C9: a silent run that lasts through the last sample is closed at the end
\* of the series; when it reaches the minimum length it is returned with
\* end = duration.
C9_TrailingRunClosed ==
    rsCalled =>
        \A r \in MaximalRuns(RsExtraction) :
            (r[2] = Len(peaks) /\ LongEnough(RsExtraction, r))
                => Interval(RsExtraction, r[1], r[2]) \in Returned(RsExtraction)

\* C10: a silent run that begins at the first sample is returned, with
\* start = 0, when it reaches the minimum length.
C10_LeadingRunReported ==
    rsCalled =>
        \A r \in MaximalRuns(RsExtraction) :
            (r[1] = 0 /\ LongEnough(RsExtraction, r))
                => Interval(RsExtraction, r[1], r[2]) \in Returned(RsExtraction)

\* a sample whose level is the limit exactly: 20 log10(|x| / 1000) = T
AtThreshold(x, silenceThreshold) ==
    /\ x \notin NonFinite
    /\ x * x = Pow10(6 - ((0 - silenceThreshold) \div 10))

\* C11: the silence test is strict: a sample whose level equals the threshold
\* is sounding, so it lies inside no returned interval and it ends the silent
\* run before it (which is returned when it is long enough).
C11_ThresholdIsSounding ==
    rsCalled =>
        \A k \in 0..(Len(peaks) - 1) :
            AtThreshold(peaks[k + 1], rsArgs.silenceThreshold) =>
                /\ \A j \in DOMAIN nonSilentSegments :
                       ~(/\ RLeq(nonSilentSegments[j].start, Q(k, sampleRate))
                         /\ RLt(Q(k, sampleRate), nonSilentSegments[j].end))
                /\ \A r \in MaximalRuns(RsExtraction) :
                       (r[2] = k /\ LongEnough(RsExtraction, r))
                           => Interval(RsExtraction, r[1], r[2]) \in Returned(RsExtraction)

\* C11 witness: a sample at the threshold has ended a silent run that
\* removeSilence returned
C11_Witness ==
    /\ rsCalled
    /\ \E k \in 1..(Len(peaks) - 1) :
           /\ AtThreshold(peaks[k + 1], rsArgs.silenceThreshold)
           /\ \E j \in DOMAIN nonSilentSegments :
                  /\ nonSilentSegments[j].end = Q(k, sampleRate)
                  /\ RLt(nonSilentSegments[j].start, nonSilentSegments[j].end)

\* C13: an extraction has no side effects: a call leaves the peak series (and
\* the rate it was decoded at) as it was, and writes nothing but its own
\* result: removeSilence leaves the worker's state alone and the worker's
\* handler leaves removeSilence's.
C13_NoSideEffects ==
    [][/\ peaks' = peaks
       /\ sampleRate' = sampleRate
       /\ (<<rsCalled, rsArgs, nonSilentSegments, totalDuration>>'
               # <<rsCalled, rsArgs, nonSilentSegments, totalDuration>>
             => UNCHANGED <<wOutcome, wDuration, wReply>>)
       /\ (<<wOutcome, wDuration, wReply>>' # <<wOutcome, wDuration, wReply>>
             => UNCHANGED <<rsCalled, rsArgs, nonSilentSegments, totalDuration>>)]_vars

\* C13 witness: both extractions have run on a series that holds a negative
\* sample
C13_Witness ==
    /\ rsCalled
    /\ wOutcome = "replied"
    /\ \E k \in DOMAIN peaks : peaks[k] < 0

\* C14: for peaks [1,1,0,0,0,1,1], duration 7 (one second per sample) and
\* minimum silence length 2, the extraction returns exactly [{start: 2, end: 5}].
C14_BoundaryScenario ==
    peaks = BoundaryPeaks =>
        /\ (rsCalled /\ sampleRate = 1 /\ rsArgs.minSilenceLength = Rat(2))
              => nonSilentSegments = << [start |-> Rat(2), end |-> Rat(5)] >>
        /\ (wOutcome = "replied" /\ wDuration = Rat(7))
              => wReply.silenceRegions = << [start |-> Rat(2), end |-> Rat(5)] >>

\* C15: on a series with a sample that is not finite the extraction fails
\* (it never returns a list), and no returned interval has a bound that is
\* not finite.
C15_NonFiniteRejected ==
    /\ (\E k \in DOMAIN peaks : peaks[k] \in NonFinite) => ~rsCalled
    /\ \A j \in DOMAIN nonSilentSegments :
           nonSilentSegments[j].start.den # 0 /\ nonSilentSegments[j].end.den # 0

\* C16: whenever the position enters a drawn region before the region's end,
\* the player is moved to that region's end, and it is never moved backward
C16_SeekToRegionEnd ==
    lastRegionIn.seen =>
        /\ RLeq(lastRegionIn.at, currentTime)
        /\ RLt(lastRegionIn.at, lastRegionIn.end) => currentTime = lastRegionIn.end

\* the position entered a silence region before its end, with more than one
\* listener registered, and the player stands at the region's end
C16_Witness ==
    /\ lastRegionIn.seen
    /\ RLt(lastRegionIn.at, lastRegionIn.end)
    /\ currentTime = lastRegionIn.end
    /\ regionInHandlers >= 2
    /\ \E r \in regions : r.id = "silence" /\ r.end = lastRegionIn.end

\* the extraction fails on the loaded audio
ExtractionFails == ~extractSilenceRegions(peaks, audioDuration).ok

\* C18: if the extraction fails when the audio becomes ready, the audio still
\* leaves the loading state: audioLoading false, controls shown, audioReady true
C18_PlaybackDespiteFailure ==
    (readyFired /\ ExtractionFails) =>
        (~audioLoading /\ showControls /\ audioReady)

\* the regions the two checkboxes ask for
ExpectedRegions ==
    (IF smallTalkCheck THEN SmallTalkRegions(smallTalkList) ELSE {})
        \cup (IF silenceChecked THEN SilenceRegions(silencePeaks, audioDuration) ELSE {})

\* C19: after every change of one of the two checkboxes the regions drawn on
\* the player are exactly the small-talk segments if Small Talk is checked plus
\* the extracted silence intervals if Silences is checked
C19_RegionsFollowCheckboxes ==
    [][((smallTalkCheck' # smallTalkCheck \/ silenceChecked' # silenceChecked)
            /\ wavesurferRegions')
        => regions' = ExpectedRegions']_vars

\* Silences has just been unchecked on an audio that has silence intervals,
\* with Small Talk checked: the small-talk regions are all that is drawn
C19_Witness ==
    /\ lastToggle = "silence"
    /\ ~silenceChecked
    /\ smallTalkCheck
    /\ SilenceRegions(silencePeaks, audioDuration) # {}
    /\ regions # {}
    /\ regions = SmallTalkRegions(smallTalkList)

\* C20: the results of a call are appended to the jobs listed exactly when the
\* call carried a NextToken, and replace the list otherwise
C20_AppendIffRequestHadToken ==
    [][lastDone'.n # lastDone.n =>
        healthScribeJobs' = IF lastDone'.NextToken # 0
                            THEN healthScribeJobs \o lastDone'.results
                            ELSE lastDone'.results]_vars

\* C21: the result of processSummarizedSegment starts with neither a dash nor
\* whitespace, and applying the function twice gives what applying it once gives
C21_NoLeadingDashIdempotent ==
    \A k \in DOMAIN processed :
        /\ processed[k] = << >> \/ Head(processed[k]) \notin ({"-"} \cup Whitespace)
        /\ k > 1 => processed[k] = processed[k - 1]

\* C22: the audio removeSilence keeps is the non-silent part of the recording:
\* no kept segment contains a run of below-threshold samples that is at least
\* minSilenceLength long, and every sample at or above the threshold lies in a
\* kept segment
C22_KeepsNonSilentPart ==
    renderedAudio.ok =>
        /\ \A j \in DOMAIN renderedAudio.kept :
               \A r \in (0..Len(peaks)) \X (0..Len(peaks)) :
                   (/\ r[1] < r[2]
                    /\ \A k \in r[1]..(r[2] - 1) : Silent(RsExtraction, k)
                    /\ LongEnough(RsExtraction, r)) =>
                       ~ /\ RLeq(renderedAudio.kept[j].start, Q(r[1], sampleRate))
                         /\ RLeq(Q(r[2], sampleRate), renderedAudio.kept[j].end)
        /\ \A k \in 0..(Len(peaks) - 1) :
               ~Silent(RsExtraction, k) =>
                   \E j \in DOMAIN renderedAudio.kept :
                       /\ RLeq(renderedAudio.kept[j].start, Q(k, sampleRate))
                       /\ RLt(Q(k, sampleRate), renderedAudio.kept[j].end)

\* C23: in the worker revision, the request posted at 'ready' reaches the
\* worker, and the worker is not terminated while that request is unanswered
\* (a terminated worker never replies, so setSilencePercent is never called)
C23_WorkerAnswersRequest ==
    (revision = "worker" /\ posted > 0) =>
        (Len(workerInbox) = posted /\ ~workerTerminated)

\* C24: every 'record-end' event causes setRecordedAudio and
\* setLastRecordingDetails to be called once
C24_OneHandlingPerStop ==
    \A n \in DOMAIN handled : handled[n] = 1

\* C25: in the revision with the paused flag, pressing the main button while
\* the recording is paused (the button reads Resume) resumes the recording:
\* the status stays recording, paused becomes false, nothing is stopped
C25_ResumeResumes ==
    [][(recRevision = "paused" /\ recordingStatus = "recording" /\ paused
            /\ clicks' # clicks)
        => (recordingStatus' = "recording" /\ ~paused' /\ stopCalls' = stopCalls)]_vars

\* C26: handleSaveChanges empties summaryChanges only after the S3 put has
\* completed without error, no step of handleSaveChanges other than the one
\* that ends a successful save changes summaryChanges, and isSaving is false
\* once the call has ended, on both paths
C26_KeepsPendingEditsUnlessSaved ==
    [][/\ (summaryChanges # NoChanges /\ summaryChanges' = NoChanges) => putCompleted'
       /\ (savePc' # savePc /\ toast' # "success") => summaryChanges' = summaryChanges
       /\ (savePc # "idle" /\ savePc' = "idle") => (~isSaving' /\ toast' \in {"success", "error"})]_vars

C26_Witness_SavedAfterEdit ==
    /\ toast = "success"
    /\ savePc = "idle"
    /\ putCompleted
    /\ capturedChanges # NoChanges
    /\ summaryChanges = NoChanges
    /\ ~isSaving

\* C27: when handleSaveChanges has failed because the S3 put threw, the
\* panel's summaryData is what it was before the call
C27_FailedSaveLeavesSummaryData ==
    (rpRevision = "state" /\ savePc = "idle" /\ failedStep = "put")
        => summaryData = summaryAtCall

====
